---- MODULE Spec2Model ----
(***************************************************************************)
(* Model of the hexapod gallery / quiz backend (src/app.py).               *)
(*                                                                         *)
(* Every route handler is synchronous and, apart from the quiz store on    *)
(* disk, stateless.  A state holds the request being served (with the      *)
(* payloads the two iNaturalist calls answer with), the response computed  *)
(* for it, and the quiz store (directory saved_quizzes).                   *)
(*                                                                         *)
(* Python strings are sequences of one-character strings, so that split,   *)
(* strip, lower and the filename filter are computed the way the code      *)
(* computes them.  A URL is a sequence of pieces ("square", ".jpg", ...)   *)
(* on which `in` and str.replace work piecewise.  A JSON value is a record *)
(* tagged by t: "absent" (key missing), "null", "str", "num", "obj".       *)
(***************************************************************************)
EXTENDS Integers, Sequences, FiniteSets, TLC

VARIABLES req, resp, store, dirExists, clock, before

vars == <<req, resp, store, dirExists, clock, before>>

(***************************************************************************)
(* Bounds of the model.                                                    *)
(***************************************************************************)
MaxBatch == 3
MaxLimit == 3
MaxQuizBatch == 2
MaxCands == 3
MaxExisting == 2
MaxSaves == 3

(***************************************************************************)
(* JSON values and Python string helpers.                                  *)
(***************************************************************************)
Absent == [t |-> "absent"]
Null == [t |-> "null"]
Str(s) == [t |-> "str", s |-> s]
\* A JSON number, kept as its decimal digits (what str() renders).
Num(digits) == [t |-> "num", s |-> digits]

Min(a, b) == IF a < b THEN a ELSE b

SeqRange(s) == {s[i] : i \in 1..Len(s)}

SeqsUpTo(S, n) == UNION {[1..k -> S] : k \in 0..n}

IsSpace(c) == c = " "

RECURSIVE LStrip(_)
LStrip(s) ==
    IF s # <<>> /\ IsSpace(Head(s)) THEN LStrip(Tail(s)) ELSE s

RECURSIVE RStrip(_)
RStrip(s) ==
    IF s # <<>> /\ IsSpace(s[Len(s)]) THEN RStrip(SubSeq(s, 1, Len(s) - 1)) ELSE s

Strip(s) == RStrip(LStrip(s))

\* The prefix of s up to (not including) its first whitespace character.
RECURSIVE TakeWord(_)
TakeWord(s) ==
    IF s = <<>> \/ IsSpace(Head(s)) THEN <<>> ELSE <<Head(s)>> \o TakeWord(Tail(s))

\* str.split() on whitespace: the list of words.
RECURSIVE SplitWords(_)
SplitWords(s) ==
    LET t == LStrip(s) IN
    IF t = <<>> THEN <<>>
    ELSE LET w == TakeWord(t) IN <<w>> \o SplitWords(SubSeq(t, Len(w) + 1, Len(t)))

\* str.split(sep) for a one-character separator on a non-empty or empty string.
RECURSIVE SplitOn(_, _)
SplitOn(s, sep) ==
    IF \A i \in 1..Len(s) : s[i] # sep THEN <<s>>
    ELSE LET k == CHOOSE i \in 1..Len(s) : s[i] = sep /\ \A j \in 1..(i - 1) : s[j] # sep
         IN <<SubSeq(s, 1, k - 1)>> \o SplitOn(SubSeq(s, k + 1, Len(s)), sep)

\* pat in s
RECURSIVE Contains(_, _)
Contains(s, pat) ==
    IF Len(s) < Len(pat) THEN FALSE
    ELSE IF SubSeq(s, 1, Len(pat)) = pat THEN TRUE
    ELSE Contains(Tail(s), pat)

\* s.replace(old, new), old non-empty
RECURSIVE Replace(_, _, _)
Replace(s, old, new) ==
    IF Len(s) < Len(old) THEN s
    ELSE IF SubSeq(s, 1, Len(old)) = old
         THEN new \o Replace(SubSeq(s, Len(old) + 1, Len(s)), old, new)
         ELSE <<Head(s)>> \o Replace(Tail(s), old, new)

LowerChar(c) ==
    CASE c = "A" -> "a"
      [] c = "B" -> "b"
      [] OTHER -> c

Lower(s) == [i \in 1..Len(s) |-> LowerChar(s[i])]

\* Truthiness of a JSON string-or-missing value (dict.get(...) used in `or`).
Truthy(v) == v.t = "str" /\ v.s # <<>>

(***************************************************************************)
(* search_hexapod_taxon_observations                                       *)
(***************************************************************************)
Unknown == <<"U", "n", "k", "n", "o", "w", "n">>

SquareJpeg == <<"square", ".jpeg">>
SquareJpg == <<"square", ".jpg">>

ErrorResult(code, what) == [kind |-> "error", code |-> code, what |-> what]

\* per_page of the observation query
PerPage(limit) == Min(50, limit * 10)

\* The body of `for photo in obs['photos'][:1]`: the entry appended to
\* photo_info, or raised = TRUE where the code raises (KeyError, TypeError).
PhotoInfo(photo) ==
    LET base == photo.url
        attribution == IF photo.attribution.t = "absent" THEN Str(Unknown)
                       ELSE photo.attribution
        Raise == [raised |-> TRUE]
        photoUrl == photo.url      \* photo['url'], evaluated only when needed
    IN
    IF base.t = "null" THEN Raise      \* 'square.jpeg' in None
    ELSE
    LET base_url == IF base.t = "absent" THEN <<>> ELSE base.s IN
    IF Contains(base_url, SquareJpeg) \/ Contains(base_url, SquareJpg)
    THEN [raised |-> FALSE,
          url |-> Replace(Replace(base_url, SquareJpeg, <<"large", ".jpeg">>),
                          SquareJpg, <<"large", ".jpg">>),
          medium_url |-> Replace(Replace(base_url, SquareJpeg, <<"medium", ".jpeg">>),
                                 SquareJpg, <<"medium", ".jpg">>),
          square_url |-> base_url,
          attribution |-> attribution]
    ELSE
    LET largeNeedsUrl == ~Truthy(photo.large_url) /\ ~Truthy(photo.medium_url)
                         /\ ~Truthy(photo.original_url)
        mediumNeedsUrl == ~Truthy(photo.medium_url) /\ ~Truthy(photo.large_url)
    IN
    IF (largeNeedsUrl \/ mediumNeedsUrl) /\ photoUrl.t = "absent" THEN Raise
    ELSE [raised |-> FALSE,
          url |-> IF Truthy(photo.large_url) THEN photo.large_url.s
                  ELSE IF Truthy(photo.medium_url) THEN photo.medium_url.s
                  ELSE IF Truthy(photo.original_url) THEN photo.original_url.s
                  ELSE photoUrl.s,
          medium_url |-> IF Truthy(photo.medium_url) THEN photo.medium_url.s
                         ELSE IF Truthy(photo.large_url) THEN photo.large_url.s
                         ELSE photoUrl.s,
          square_url |-> base_url,
          attribution |-> attribution]

\* taxon.get('name', 'Unknown')
SpeciesName(taxon) == IF taxon.name.t = "absent" THEN Str(Unknown) ELSE taxon.name

\* species_name.split()[0] if species_name != 'Unknown' else 'Unknown'
Genus(species_name) ==
    IF species_name = Unknown THEN Unknown ELSE SplitWords(species_name)[1]

\* Whether the genus extraction raises: None has no split, and split() of a
\* blank name is the empty list.
GenusRaises(name) == name.t # "str" \/ (name.s # Unknown /\ SplitWords(name.s) = <<>>)

\* Faulty variant: no genus preference, every new species is accepted.
SkipGenusNever(genus, st, limit) == FALSE

\* `if genus in seen_genera and len(observations) < limit: continue`
SkipGenus(genus, st, limit) ==
    genus \in st.seen_genera /\ Len(st.observations) < limit

\* Faulty variant: the loop stops one observation late (> for >=).
StopLoopLate(st, limit) == Len(st.observations) > limit

\* `if len(observations) >= limit: break`
StopLoop(st, limit) == Len(st.observations) >= limit

\* The loop over obs_data['results'] from position i on; st holds
\* observations, seen_species, seen_genera and whether an exception escaped.
RECURSIVE DiversifyLoop(_, _, _, _)
DiversifyLoop(batch, i, limit, st) ==
    IF i > Len(batch) THEN st
    ELSE
    LET obs == batch[i] IN
    IF ~(obs.photos # <<>> /\ obs.taxon.t = "obj") THEN DiversifyLoop(batch, i + 1, limit, st)
    ELSE
    LET name == SpeciesName(obs.taxon) IN
    IF GenusRaises(name) THEN [st EXCEPT !.raised = TRUE]
    ELSE
    LET species_name == name.s
        genus == Genus(species_name)
    IN
    IF species_name \in st.seen_species THEN DiversifyLoop(batch, i + 1, limit, st)
    ELSE IF SkipGenus(genus, st, limit) THEN DiversifyLoop(batch, i + 1, limit, st)
    ELSE
    LET info == PhotoInfo(obs.photos[1]) IN
    IF info.raised THEN [st EXCEPT !.raised = TRUE]
    ELSE
    LET observation_info ==
            [id |-> i,
             scientific_name |-> species_name,
             common_name |-> IF obs.taxon.preferred_common_name.t = "absent"
                             THEN Str(Unknown) ELSE obs.taxon.preferred_common_name,
             photos |-> <<info>>,
             url |-> <<"https://www.inaturalist.org/observations/", i>>]
        st2 == [st EXCEPT !.observations = Append(@, observation_info),
                          !.seen_species = @ \cup {species_name},
                          !.seen_genera = @ \cup {genus}]
    IN
    IF StopLoop(st2, limit) THEN st2 ELSE DiversifyLoop(batch, i + 1, limit, st2)

EmptyAcc == [observations |-> <<>>, seen_species |-> {}, seen_genera |-> {}, raised |-> FALSE]

\* Lines 42-47: the taxon the gallery path resolves to.
SimpleResolve(results) == results[1]

\* The whole function: taxa is the answer of the taxa search, obsr the answer
\* of the observation search ([status, results]).
search_hexapod_taxon_observations(taxon_name, limit, taxa, obsr) ==
    IF taxa.status # "ok" THEN ErrorResult("request_failed", taxon_name)
    ELSE IF taxa.results = <<>> THEN ErrorResult("not_found", taxon_name)
    ELSE
    LET first == SimpleResolve(taxa.results) IN
    IF obsr.status # "ok" THEN ErrorResult("request_failed", taxon_name)
    ELSE
    LET st == DiversifyLoop(obsr.results, 1, limit, EmptyAcc) IN
    IF st.raised THEN ErrorResult("exception", taxon_name)
    ELSE [kind |-> "ok",
          taxon_name |-> first.name,
          taxon_id |-> first.id,
          taxon_rank |-> first.rank,
          total_found |-> Len(st.observations),
          observations |-> st.observations]

\* get_family_images: the default limit of the function.
DefaultLimit == 5

\* get_family_images_with_count: count = max(1, min(count, 20))
MinCount == 1
MaxCount == 20

ClampCount(count) == IF Min(count, MaxCount) > MinCount THEN Min(count, MaxCount) ELSE MinCount

get_family_images(family_name, taxa, obsr) ==
    search_hexapod_taxon_observations(family_name, DefaultLimit, taxa, obsr)

get_family_images_with_count(family_name, count, taxa, obsr) ==
    search_hexapod_taxon_observations(family_name, ClampCount(count), taxa, obsr)

(***************************************************************************)
(* validate_taxon_name                                                     *)
(***************************************************************************)
\* Faulty variant: the names are compared as typed, without lower().
ExactMatchCaseSensitive(taxon_name, results) ==
    IF \E i \in 1..Len(results) : results[i].name = taxon_name
    THEN results[CHOOSE i \in 1..Len(results) :
                    /\ results[i].name = taxon_name
                    /\ \A j \in 1..(i - 1) : results[j].name # taxon_name]
    ELSE results[1]

\* Lines 214-221: the exact (case-insensitive) match, else the first result.
ExactMatch(taxon_name, results) ==
    IF \E i \in 1..Len(results) : Lower(results[i].name) = Lower(taxon_name)
    THEN results[CHOOSE i \in 1..Len(results) :
                    /\ Lower(results[i].name) = Lower(taxon_name)
                    /\ \A j \in 1..(i - 1) : Lower(results[j].name) # Lower(taxon_name)]
    ELSE results[1]

validate_taxon_name(taxon_name, taxa) ==
    IF taxa.status # "ok"
    THEN [kind |-> "validation", valid |-> FALSE, code |-> "exception", what |-> taxon_name]
    ELSE IF taxa.results = <<>>
    THEN [kind |-> "validation", valid |-> FALSE, code |-> "not_valid", what |-> taxon_name]
    ELSE
    LET exact_match == ExactMatch(taxon_name, taxa.results) IN
    [kind |-> "validation", valid |-> TRUE,
     taxon_name |-> exact_match.name,
     taxon_id |-> exact_match.id,
     rank |-> exact_match.rank,
     ancestry |-> IF exact_match.ancestry.t = "absent" THEN Str(<<>>) ELSE exact_match.ancestry]

(***************************************************************************)
(* get_quiz_question                                                       *)
(***************************************************************************)
\* Faulty variant: the answer is the resolved scientific name, not the name as given.
QuestionOfResolved(correct_family, result) ==
    LET observation == result.observations[1] IN
    [kind |-> "question",
     correct_answer |-> result.taxon_name,
     image_url |-> observation.photos[1].url,
     scientific_name |-> observation.scientific_name,
     observation_url |-> observation.url]

\* Lines 425-432: the question built from the one observation.
QuestionOf(correct_family, result) ==
    LET observation == result.observations[1] IN
    [kind |-> "question",
     correct_answer |-> correct_family,
     image_url |-> observation.photos[1].url,
     scientific_name |-> observation.scientific_name,
     observation_url |-> observation.url]

\* pick is the index random.choice draws.
get_quiz_question(families, pick, taxa, obsr) ==
    IF families = <<>> THEN ErrorResult("no_families", <<>>)
    ELSE
    LET correct_family == families[pick]
        result == search_hexapod_taxon_observations(correct_family, 1, taxa, obsr)
    IN
    IF result.kind = "error" THEN ErrorResult("no_image", correct_family)
    ELSE IF result.observations = <<>> THEN ErrorResult("no_image", correct_family)
    ELSE
    QuestionOf(correct_family, result)

(***************************************************************************)
(* Payloads of the two iNaturalist searches.                               *)
(***************************************************************************)
Taxon(id, name, ancestry) == [id |-> id, name |-> name, rank |-> "family", ancestry |-> ancestry]

\* Candidates of the taxa search (results of /taxa).
Cands ==
    { Taxon(1, <<"a">>, Str(<<"4", "8">>)),
      Taxon(2, <<"A">>, Str(<<"4", "8", "/", "1">>)),
      Taxon(3, <<"b">>, Absent),
      Taxon(4, <<"a", "b">>, Str(<<"4", "8">>)) }

TypedNames == { <<"a">>, <<"A">>, <<"b">>, <<"B">> }

\* per_page of the two taxa queries
SimplePerPage == 1
ValidatePerPage == 5

NotCalled == [status |-> "not_called", results |-> <<>>]
Failed == [status |-> "error", results |-> <<>>]
Ok(results) == [status |-> "ok", results |-> results]

TaxaResponses(perPage, cands) ==
    {Failed} \cup {Ok(r) : r \in SeqsUpTo(cands, Min(MaxCands, perPage))}

ObjTaxon(name) == [t |-> "obj", name |-> name, preferred_common_name |-> Absent]

Photo(url, large, medium, original) ==
    [url |-> url, large_url |-> large, medium_url |-> medium, original_url |-> original,
     attribution |-> Absent]

SquarePhoto == Photo(Str(<<"p/", "square", ".jpg">>), Absent, Absent, Absent)

Obs(photos, taxon) == [photos |-> photos, taxon |-> taxon]

\* Observations the gallery batches are drawn from: with and without photos,
\* without taxon, without name, two species of genus A (and the genus itself),
\* one species of genus B.
GalleryTaxa ==
    { Absent,
      ObjTaxon(Absent),
      ObjTaxon(Str(<<"A", " ", "a">>)),
      ObjTaxon(Str(<<"A", " ", "b">>)),
      ObjTaxon(Str(<<"A">>)),
      ObjTaxon(Str(<<"B", " ", "a">>)) }

GalleryObs == {Obs(p, t) : p \in {<<>>, <<SquarePhoto>>}, t \in GalleryTaxa}

\* Photos the quiz batches are drawn from: every branch of the URL derivation.
QuizPhotos ==
    { <<>>,
      <<SquarePhoto>>,
      <<Photo(Str(<<"p/", "square", ".jpeg">>), Absent, Absent, Absent)>>,
      <<Photo(Str(<<"p/", "original", ".jpg">>), Str(<<"p/", "large", ".jpg">>), Absent, Absent)>>,
      <<Photo(Str(<<"p/", "original", ".jpg">>), Absent, Absent, Absent)>>,
      <<Photo(Absent, Absent, Str(<<"p/", "medium", ".jpg">>), Absent)>>,
      <<Photo(Absent, Absent, Absent, Absent)>>,
      <<Photo(Null, Absent, Absent, Absent)>>,
      <<Photo(Str(<<"p/", "original", ".jpg">>), Absent, Absent, Absent), SquarePhoto>> }

QuizTaxa == { Absent, ObjTaxon(Str(<<"A", " ", "a">>)), ObjTaxon(Str(<<" ">>)), ObjTaxon(Null) }

QuizObs == {Obs(p, t) : p \in QuizPhotos, t \in QuizTaxa}

ObsResponses(universe, n) == {Failed} \cup {Ok(b) : b \in SeqsUpTo(universe, n)}

\* The two calls a search makes: the observation search is only called when
\* the taxa search answered with a candidate.
Calls(perPage, cands, universe, n) ==
    {<<t, NotCalled>> : t \in {x \in TaxaResponses(perPage, cands) : x.results = <<>>}}
    \cup {<<t, o>> : t \in {x \in TaxaResponses(perPage, cands) : x.results # <<>>},
                     o \in ObsResponses(universe, n)}

GalleryCands == {c \in Cands : c.id \in {1, 3}}

\* The observation search answers with at most per_page observations.
FamilyRequests(u) ==
    {[op |-> "family", taxon_name |-> <<"b">>, taxa |-> c[1], obsr |-> c[2]] :
        c \in Calls(SimplePerPage, GalleryCands, u,
                    Min(MaxBatch, PerPage(DefaultLimit)))}

FamilyCountRequests(u, n) ==
    {[op |-> "family_count", taxon_name |-> <<"b">>, count |-> n, taxa |-> c[1], obsr |-> c[2]] :
        c \in Calls(SimplePerPage, GalleryCands, u, Min(MaxBatch, PerPage(ClampCount(n))))}

ValidateRequests(u) ==
    {[op |-> "validate", taxon_name |-> n, taxa |-> t] :
        n \in TypedNames, t \in TaxaResponses(ValidatePerPage, u)}

QuizFamilies == SeqsUpTo({<<"a">>, <<"b">>}, 2)

QuizRequests(u) ==
    {[op |-> "question", families |-> <<>>, pick |-> 0, taxa |-> NotCalled, obsr |-> NotCalled]}
    \cup
    {[op |-> "question", families |-> f, pick |-> k, taxa |-> c[1], obsr |-> c[2]] :
        f \in QuizFamilies \ {<<>>}, k \in 1..2,
        c \in Calls(SimplePerPage, {Taxon(1, <<"a">>, Absent)}, u,
                    Min(MaxQuizBatch, PerPage(1)))}

NoResponse == [kind |-> "none"]

EmptyStore == <<>>

NoSnapshot == [store |-> EmptyStore, dirExists |-> FALSE]

(***************************************************************************)
(* Gallery and validation: the request is drawn, the handler answers it.   *)
(***************************************************************************)
Init ==
    /\ \/ req \in FamilyRequests(GalleryObs)
       \/ \E n \in 0..MaxLimit : req \in FamilyCountRequests(GalleryObs, n)
       \/ req \in ValidateRequests(Cands)
    /\ resp = NoResponse
    /\ store = EmptyStore
    /\ dirExists = FALSE
    /\ clock = 0
    /\ before = NoSnapshot

GetFamilyImages ==
    /\ req.op = "family"
    /\ resp.kind = "none"
    /\ resp' = get_family_images(req.taxon_name, req.taxa, req.obsr)
    /\ UNCHANGED <<req, store, dirExists, clock, before>>

GetFamilyImagesWithCount ==
    /\ req.op = "family_count"
    /\ resp.kind = "none"
    /\ resp' = get_family_images_with_count(req.taxon_name, req.count, req.taxa, req.obsr)
    /\ UNCHANGED <<req, store, dirExists, clock, before>>

ValidateTaxonName ==
    /\ req.op = "validate"
    /\ resp.kind = "none"
    /\ resp' = validate_taxon_name(req.taxon_name, req.taxa)
    /\ UNCHANGED <<req, store, dirExists, clock, before>>

Next == GetFamilyImages \/ GetFamilyImagesWithCount \/ ValidateTaxonName

Spec == Init /\ [][Next]_vars

(***************************************************************************)
(* Quiz questions.                                                         *)
(***************************************************************************)
InitQuiz ==
    /\ req \in {r \in QuizRequests(QuizObs) : r.pick <= Len(r.families)}
    /\ resp = NoResponse
    /\ store = EmptyStore
    /\ dirExists = FALSE
    /\ clock = 0
    /\ before = NoSnapshot

GetQuizQuestion ==
    /\ req.op = "question"
    /\ resp.kind = "none"
    /\ resp' = get_quiz_question(req.families, req.pick, req.taxa, req.obsr)
    /\ UNCHANGED <<req, store, dirExists, clock, before>>

NextQuiz == GetQuizQuestion

SpecQuiz == InitQuiz /\ [][NextQuiz]_vars

(***************************************************************************)
(* check_taxonomic_overlap                                                 *)
(***************************************************************************)
\* str(taxon.get('taxon_id', ''))
IdString(taxon) ==
    CASE taxon.taxon_id.t = "absent" -> <<>>
      [] taxon.taxon_id.t = "null" -> <<"N", "o", "n", "e">>
      [] OTHER -> taxon.taxon_id.s

\* taxon.get('ancestry', '') is falsy: '', None (and the key missing)
AncestryFalsy(taxon) ==
    \/ taxon.ancestry.t \in {"absent", "null"}
    \/ taxon.ancestry.t = "str" /\ taxon.ancestry.s = <<>>

\* Whether reading the taxon raises: it is no object (no .get), or its
\* ancestry is a truthy value that is no string (no .split).
TaxonRaises(taxon) ==
    taxon.t # "obj" \/ (~AncestryFalsy(taxon) /\ taxon.ancestry.t # "str")

\* Faulty variant: the taxon's own id is not added to its set.
AncestrySetNoSelf(taxon) ==
    IF AncestryFalsy(taxon) THEN {} ELSE SeqRange(SplitOn(taxon.ancestry.s, "/"))

\* set(ancestry.split('/')) if ancestry else set(), then .add(id)
AncestrySet(taxon) ==
    (IF AncestryFalsy(taxon) THEN {} ELSE SeqRange(SplitOn(taxon.ancestry.s, "/")))
    \cup {IdString(taxon)}

\* taxon.get('taxon_name', '')
TaxonName(taxon) == IF taxon.taxon_name.t = "absent" THEN <<>> ELSE taxon.taxon_name.s

\* Faulty variant: only the first of the two tests.
OverlapWithOneWay(new_taxon, existing_taxon) ==
    IF IdString(new_taxon) \in AncestrySet(existing_taxon) THEN "new_is_ancestor" ELSE "none"

\* The two tests of the loop body (lines 268-280) on one existing taxon.
OverlapWith(new_taxon, existing_taxon) ==
    IF IdString(new_taxon) \in AncestrySet(existing_taxon) THEN "new_is_ancestor"
    ELSE IF IdString(existing_taxon) \in AncestrySet(new_taxon) THEN "existing_is_ancestor"
    ELSE "none"

OverlapError == [kind |-> "overlap", overlap |-> TRUE, error |-> TRUE]

\* `for existing_taxon in existing_taxa` from position i on.
RECURSIVE OverlapLoop(_, _, _)
OverlapLoop(new_taxon, existing_taxa, i) ==
    IF i > Len(existing_taxa) THEN [kind |-> "overlap", overlap |-> FALSE, error |-> FALSE]
    ELSE
    LET existing_taxon == existing_taxa[i] IN
    IF TaxonRaises(existing_taxon) THEN OverlapError
    ELSE
    LET how == OverlapWith(new_taxon, existing_taxon) IN
    IF how # "none"
    THEN [kind |-> "overlap", overlap |-> TRUE, error |-> FALSE,
          overlapping_taxon |-> TaxonName(existing_taxon),
          reason |-> <<how, TaxonName(new_taxon), TaxonName(existing_taxon)>>]
    ELSE OverlapLoop(new_taxon, existing_taxa, i + 1)

check_taxonomic_overlap(new_taxon, existing_taxa) ==
    IF TaxonRaises(new_taxon) THEN OverlapError
    ELSE OverlapLoop(new_taxon, existing_taxa, 1)

\* A taxon as the quiz page posts it.
QuizTaxon(id, ancestry) ==
    [t |-> "obj", taxon_id |-> id, ancestry |-> ancestry,
     taxon_name |-> IF id.t \in {"str", "num"} THEN Str(<<"T">> \o id.s) ELSE Str(<<"T">>)]

\* Taxa with an id and an ancestry path.
WellFormedTaxa ==
    { QuizTaxon(id, Str(a)) :
        id \in {Str(<<"1">>), Str(<<"2">>), Str(<<"1", "2">>), Num(<<"2">>)},
        a \in {<<>>, <<"1">>, <<"1", "/", "2">>, <<"1", "/", "1", "2">>} }

\* Taxa with the id or the ancestry missing.
MissingFieldTaxa ==
    { QuizTaxon(Absent, Str(<<"1">>)), QuizTaxon(Absent, Str(<<"1", "/", "2">>)),
      QuizTaxon(Str(<<"1">>), Absent), QuizTaxon(Str(<<"1", "2">>), Absent) }

\* Payloads on which the handler raises.
RaisingTaxa == { Str(<<"T">>), QuizTaxon(Str(<<"2">>), Num(<<"1">>)) }

OverlapTaxa == WellFormedTaxa \cup MissingFieldTaxa \cup RaisingTaxa

OverlapRequests(u) ==
    {[op |-> "overlap", new_taxon |-> n, existing_taxa |-> e] :
        n \in u, e \in SeqsUpTo(u, MaxExisting)}

InitOverlap ==
    /\ req \in OverlapRequests(OverlapTaxa)
    /\ resp = NoResponse
    /\ store = EmptyStore
    /\ dirExists = FALSE
    /\ clock = 0
    /\ before = NoSnapshot

CheckTaxonomicOverlap ==
    /\ req.op = "overlap"
    /\ resp.kind = "none"
    /\ resp' = check_taxonomic_overlap(req.new_taxon, req.existing_taxa)
    /\ UNCHANGED <<req, store, dirExists, clock, before>>

NextOverlap == CheckTaxonomicOverlap

SpecOverlap == InitOverlap /\ [][NextOverlap]_vars

(***************************************************************************)
(* The quiz store: save_quiz_setup, list_saved_quizzes, delete_quiz_setup  *)
(***************************************************************************)
AlnumChars == {"a", "b", "x", "y", "z"}

\* c.isalnum() or c in (' ', '-', '_')
KeepChar(c) == c \in AlnumChars \/ c \in {" ", "-", "_"}

\* Faulty variant: the file is named by the quiz name as it is.
RawFilename(quiz_name) == quiz_name

\* "".join(c for c in quiz_name if ...).rstrip()
SafeFilename(quiz_name) == RStrip(SelectSeq(quiz_name, KeepChar))

\* Faulty variant: only an empty list of families is rejected.
SaveRejectedLax(quiz_name, families) ==
    IF quiz_name = <<>> THEN "name_required"
    ELSE IF families = <<>> THEN "families_required"
    ELSE "no"

\* Lines 303-307: the two validations of a save.
SaveRejected(quiz_name, families) ==
    IF quiz_name = <<>> THEN "name_required"
    ELSE IF Len(families) < 2 THEN "families_required"
    ELSE "no"

WriteFile(files, filename, data) ==
    [f \in (DOMAIN files) \cup {filename} |-> IF f = filename THEN data ELSE files[f]]

RemoveFile(files, filename) ==
    [f \in (DOMAIN files) \ {filename} |-> files[f]]

\* The n records of `quizzes` sorted by created_at, newest first.
RECURSIVE SortNewestFirst(_)
SortNewestFirst(quizzes) ==
    IF quizzes = {} THEN <<>>
    ELSE LET newest == CHOOSE q \in quizzes : \A r \in quizzes : r.created_at <= q.created_at
         IN <<newest>> \o SortNewestFirst(quizzes \ {newest})

list_saved_quizzes(files, exists) ==
    IF exists THEN SortNewestFirst({files[f] : f \in DOMAIN files}) ELSE <<>>

\* Quiz names: missing or blank, two names and a padded one of one sanitized
\* name, another name, and a name with no character the filter keeps.
RawNames == { <<>>, <<" ">>, <<"a">>, <<"a", "!">>, <<" ", "a">>, <<"b">>, <<"!">> }

FamilyLists == { <<>>, <<"x">>, <<"x", "y">>, <<"x", "z">> }

InitStore ==
    /\ req = [op |-> "none"]
    /\ resp = NoResponse
    /\ store = EmptyStore
    /\ dirExists = FALSE
    /\ clock = 0
    /\ before = NoSnapshot

save_quiz_setup ==
    \E name \in RawNames, families \in FamilyLists :
        LET quiz_name == Strip(name)
            rejected == SaveRejected(quiz_name, families)
            quiz_data == [name |-> quiz_name, families |-> families,
                          created_at |-> clock + 1, family_count |-> Len(families)]
        IN
        /\ clock < MaxSaves
        /\ req' = [op |-> "save", name |-> name, families |-> families]
        /\ before' = [store |-> store, dirExists |-> dirExists]
        /\ IF rejected # "no"
           THEN /\ resp' = ErrorResult(rejected, name)
                /\ UNCHANGED <<store, dirExists, clock>>
           ELSE /\ resp' = [kind |-> "saved", name |-> quiz_name]
                /\ dirExists' = TRUE
                /\ store' = WriteFile(store, SafeFilename(quiz_name), quiz_data)
                /\ clock' = clock + 1

ListSavedQuizzes ==
    /\ req' = [op |-> "list"]
    /\ before' = [store |-> store, dirExists |-> dirExists]
    /\ resp' = [kind |-> "list", quizzes |-> list_saved_quizzes(store, dirExists)]
    /\ UNCHANGED <<store, dirExists, clock>>

delete_quiz_setup ==
    \E quiz_name \in RawNames \ {<<>>} :      \* the route matches no empty name
        LET filename == SafeFilename(quiz_name) IN
        /\ req' = [op |-> "delete", name |-> quiz_name]
        /\ before' = [store |-> store, dirExists |-> dirExists]
        /\ IF dirExists /\ filename \in DOMAIN store
           THEN /\ resp' = [kind |-> "deleted", name |-> quiz_name]
                /\ store' = RemoveFile(store, filename)
           ELSE /\ resp' = ErrorResult("not_found", quiz_name)
                /\ store' = store
        /\ UNCHANGED <<dirExists, clock>>

NextStore == save_quiz_setup \/ ListSavedQuizzes \/ delete_quiz_setup

SpecStore == InitStore /\ [][NextStore]_vars

(***************************************************************************)
(* Properties.                                                             *)
(***************************************************************************)
IsGallery == req.op \in {"family", "family_count"}

\* The limit the route passes to search_hexapod_taxon_observations.
Limit == IF req.op = "family" THEN DefaultLimit ELSE ClampCount(req.count)

Batch == req.obsr.results

\* Observations of the batch with at least one photo and a taxon.
Candidates == {i \in 1..Len(Batch) : Batch[i].photos # <<>> /\ Batch[i].taxon.t = "obj"}

\* First whitespace-delimited token of a name.
FirstToken(name) == TakeWord(LStrip(name))

\* Species name and genus of candidate i of the batch, "Unknown" without a name.
NameAt(i) == IF Batch[i].taxon.name.t = "str" THEN Batch[i].taxon.name.s ELSE Unknown

GenusAt(i) == IF Batch[i].taxon.name.t = "str" THEN FirstToken(Batch[i].taxon.name.s) ELSE Unknown

BatchGenera == {GenusAt(i) : i \in Candidates}

BatchSpecies == {NameAt(i) : i \in Candidates}

ResultGenera == {FirstToken(resp.observations[i].scientific_name) : i \in 1..Len(resp.observations)}

C2_GeneraWhenSupplyAllows ==
    (IsGallery /\ resp.kind = "ok" /\ Cardinality(BatchGenera) >= Limit) =>
        Cardinality(ResultGenera) >= Limit

\* Two genera are asked for, and the batch offers a second species of the first
\* genus before the second genus.
C2_Witness ==
    /\ IsGallery /\ resp.kind = "ok"
    /\ Limit = 2 /\ Cardinality(BatchGenera) >= 2
    /\ {1, 2} \subseteq Candidates
    /\ GenusAt(1) = GenusAt(2) /\ NameAt(1) # NameAt(2)
    /\ Cardinality(ResultGenera) = 2

\* C10: same-genus candidates fill the result up: when the batch holds fewer than
\* `limit` genera but at least `limit` candidates of pairwise distinct species,
\* the result reaches `limit` observations.
C10_SameGenusFillIn ==
    (/\ IsGallery /\ resp.kind = "ok"
     /\ Cardinality(BatchGenera) < Limit
     /\ Cardinality(BatchSpecies) >= Limit) =>
        Len(resp.observations) >= Limit

\* Positions of the candidates of the taxa search whose name is the typed name,
\* case-insensitively.
Matches == {i \in 1..Len(req.taxa.results) : Lower(req.taxa.results[i].name) = Lower(req.taxon_name)}

\* C9: validation returns the first candidate whose name equals the typed name
\* case-insensitively, the first candidate when none does, and is not valid
\* without candidates; the gallery takes the first candidate whatever its name.
C9_ExactMatchPreference ==
    /\ (req.op = "validate" /\ resp.kind = "validation") =>
          IF req.taxa.status = "ok" /\ req.taxa.results # <<>>
          THEN /\ resp.valid
               /\ \E i \in 1..Len(req.taxa.results) :
                     /\ resp.taxon_id = req.taxa.results[i].id
                     /\ resp.taxon_name = req.taxa.results[i].name
                     /\ IF Matches = {} THEN i = 1
                        ELSE i \in Matches /\ \A j \in Matches : i <= j
          ELSE ~resp.valid
    /\ (IsGallery /\ resp.kind = "ok") =>
          /\ resp.taxon_id = req.taxa.results[1].id
          /\ resp.taxon_name = req.taxa.results[1].name

\* The typed name matches the third candidate only, and only up to case.
C9_Witness ==
    /\ req.op = "validate" /\ resp.kind = "validation" /\ resp.valid
    /\ Len(req.taxa.results) = 3
    /\ Matches = {3}
    /\ req.taxa.results[3].name # req.taxon_name
    /\ resp.taxon_id = req.taxa.results[3].id
    /\ resp.taxon_id # req.taxa.results[1].id

WellFormed(taxon) ==
    taxon.t = "obj" /\ taxon.taxon_id.t \in {"str", "num"} /\ taxon.ancestry.t = "str"

\* id is one of the '/'-separated tokens of path: it sits between two
\* separators (or ends) of the path and holds none.
IsPathToken(id, path) ==
    \E p \in 1..(Len(path) + 1) : \E q \in (p - 1)..Len(path) :
        /\ SubSeq(path, p, q) = id
        /\ p = 1 \/ path[p - 1] = "/"
        /\ q = Len(path) \/ path[q + 1] = "/"
        /\ \A k \in p..q : path[k] # "/"

\* a is b, or an ancestor of b by b's ancestry path.
AncestorOrSelf(a, b) ==
    \/ a.taxon_id.s = b.taxon_id.s
    \/ b.ancestry.s # <<>> /\ IsPathToken(a.taxon_id.s, b.ancestry.s)

Related(a, b) == AncestorOrSelf(a, b) \/ AncestorOrSelf(b, a)

AllWellFormed ==
    WellFormed(req.new_taxon)
    /\ \A i \in 1..Len(req.existing_taxa) : WellFormed(req.existing_taxa[i])

\* C3: swapping candidate and existing taxon does not change the verdict.
C3_DirectionAgnostic ==
    (req.op = "overlap" /\ resp.kind = "overlap" /\ Len(req.existing_taxa) = 1) =>
        resp.overlap =
            check_taxonomic_overlap(req.existing_taxa[1], <<req.new_taxon>>).overlap

\* The candidate is a descendant of the existing taxon, not the reverse.
C3_Witness ==
    /\ req.op = "overlap" /\ resp.kind = "overlap" /\ Len(req.existing_taxa) = 1
    /\ AllWellFormed
    /\ AncestorOrSelf(req.existing_taxa[1], req.new_taxon)
    /\ ~AncestorOrSelf(req.new_taxon, req.existing_taxa[1])
    /\ resp.overlap

\* C4: on well-formed taxa the verdict is overlap exactly when the candidate and
\* some existing taxon are equal or one is an ancestor of the other.
C4_OverlapIffRelated ==
    (req.op = "overlap" /\ resp.kind = "overlap" /\ AllWellFormed) =>
        /\ ~resp.error
        /\ resp.overlap <=>
              \E i \in 1..Len(req.existing_taxa) : Related(req.new_taxon, req.existing_taxa[i])
        /\ (\E i \in 1..Len(req.existing_taxa) :
               req.existing_taxa[i].taxon_id.s = req.new_taxon.taxon_id.s) => resp.overlap

\* Two existing taxa, each sharing an ancestor with the candidate, none related
\* to it: no overlap.
C4_Witness ==
    /\ req.op = "overlap" /\ resp.kind = "overlap" /\ AllWellFormed
    /\ Len(req.existing_taxa) = 2
    /\ \A i \in 1..2 :
          /\ req.existing_taxa[i].ancestry.s # <<>>
          /\ Head(SplitOn(req.existing_taxa[i].ancestry.s, "/"))
               = Head(SplitOn(req.new_taxon.ancestry.s, "/"))
          /\ req.new_taxon.ancestry.s # <<>>
    /\ ~resp.overlap

\* The id or the ancestry of the taxon is missing.
MissingField(taxon) ==
    taxon.t = "obj" /\ (taxon.taxon_id.t = "absent" \/ taxon.ancestry.t = "absent")

\* C5: with a taxon whose id or ancestry is missing, the verdict is an error with
\* overlap = true.
C5_MalformedNeverPasses ==
    (/\ req.op = "overlap" /\ resp.kind = "overlap"
     /\ \/ MissingField(req.new_taxon)
        \/ \E i \in 1..Len(req.existing_taxa) : MissingField(req.existing_taxa[i])) =>
        resp.overlap /\ resp.error

\* The name reduced to alphanumerics, space, hyphen and underscore, trailing
\* whitespace trimmed.
SanitizedName(name) == RStrip(SelectSeq(name, LAMBDA c : c \in AlnumChars \cup {" ", "-", "_"}))

Listing == list_saved_quizzes(store, dirExists)

\* C7: a save with fewer than 2 taxa, or with an empty name, is answered with an
\* error and leaves the store as it was.
C7_InvalidSaveWritesNothing ==
    (req.op = "save" /\ (Len(req.families) < 2 \/ \A i \in 1..Len(req.name) : req.name[i] = " ")) =>
        /\ resp.kind = "error"
        /\ store = before.store
        /\ dirExists = before.dirExists

\* A save with one taxon under the name of a stored quiz.
C7_Witness ==
    /\ req.op = "save" /\ Len(req.families) = 1
    /\ SanitizedName(req.name) \in DOMAIN before.store
    /\ resp.kind = "error"
    /\ store = before.store

\* C8: the listing holds one record per sanitized name; after a successful save
\* it holds exactly one record of that sanitized name, with the taxa saved; after
\* a delete it holds none of that sanitized name.
C8_OneRecordPerSanitizedName ==
    /\ Len(Listing) = Cardinality(DOMAIN store)
    /\ \A i, j \in 1..Len(Listing) :
          i # j => SanitizedName(Listing[i].name) # SanitizedName(Listing[j].name)
    /\ resp.kind = "saved" =>
          /\ Cardinality({i \in 1..Len(Listing) :
                SanitizedName(Listing[i].name) = SanitizedName(Strip(req.name))}) = 1
          /\ \A i \in 1..Len(Listing) :
                SanitizedName(Listing[i].name) = SanitizedName(Strip(req.name))
                   => Listing[i].families = req.families
    /\ req.op = "delete" =>
          \A i \in 1..Len(Listing) :
              SanitizedName(Listing[i].name) # SanitizedName(req.name)

\* A save replaces the record of another name with the same sanitized name and
\* other taxa.
C8_Witness ==
    /\ resp.kind = "saved"
    /\ \E f \in DOMAIN before.store :
          /\ SanitizedName(before.store[f].name) = SanitizedName(Strip(req.name))
          /\ before.store[f].name # Strip(req.name)
          /\ before.store[f].families # req.families
    /\ Cardinality(DOMAIN store) = Cardinality(DOMAIN before.store)
    /\ Cardinality(DOMAIN store) = 2

====
